---- MODULE Spec2Model ----
(***************************************************************************)
(* A model of tfwrapper (src/src/tfwrapper/main.py): the command-line      *)
(* orchestrator that resolves, bootstraps and tears down a Terraform       *)
(* remote-state backend kept in an SSM parameter and an S3 bucket.         *)
(*                                                                         *)
(* Text is modelled as a sequence of tokens.  A token is one character of  *)
(* a name, or one literal piece of the backend template; the double quote  *)
(* and white space are always tokens of their own, so that the pattern     *)
(* match of delete_bootstrap_stack can be computed on the sequence.        *)
(*                                                                         *)
(* One run of the program is StartRun (main's option handling) followed by *)
(* the steps of the chosen command until pc = "done".  The parameter       *)
(* store, the buckets and the files outlive a run; at most MaxRuns runs    *)
(* are made one after the other.                                           *)
(***************************************************************************)
EXTENDS Integers, Sequences, FiniteSets, TLC

\* ------------------------------------------------------------ bounds
\* Number of runs of the program made one after the other.
MaxRuns == 1
\* Most object versions and delete markers a bucket holds.
MaxObjects == 2
\* Longest application name and environment name of the identity check.
MaxLen == 2
\* Number of times the resolver is applied to the same inputs.
MaxCalls == 2
\* Number of runs of the re-run check, made one after the other.
MaxBootstraps == 2
\* Most full batches that the listed versions of one page fill.
MaxBatches == 2
\* Longest bucket name, in tokens, of the round-trip check.
MaxName == 2

\* ------------------------------------------------------------ text
Q == "\""
NoText == << >>

\* str.lower() on the characters the model uses.
LowerChar(c) ==
  CASE c = "A" -> "a"
    [] c = "B" -> "b"
    [] c = "Y" -> "y"
    [] c = "N" -> "n"
    [] c = "R" -> "r"
    [] OTHER -> c

Lower(s) == [i \in 1..Len(s) |-> LowerChar(s[i])]

\* All sequences over S of length lo..hi.
SeqsOf(S, lo, hi) == UNION {[1..n -> S] : n \in lo..hi}

\* ------------------------------------------------------------ identity
\* TfWrapper.__init__: self.env = env or 'dev'
Dev == <<"d", "e", "v">>
EnvOrDefault(e) == IF e = NoText THEN Dev ELSE e

\* The join of application name and environment without .lower().
SafeAppName_no_lower(app, env) == app \o env

\* self.safe_app_name = (self.app_name + self.env).lower()
SafeAppName(app, env) == Lower(app \o env)

\* self.ssm_param_name = f"/terraform/backend/{self.account_id}-{self.safe_app_name}"
SsmParamName(account, safe) == <<"/terraform/backend/">> \o account \o <<"-">> \o safe

\* f"{self.account_id}-{self.safe_app_name}-tfstate"
DefaultBucket(account, safe) == account \o <<"-">> \o safe \o <<"-tfstate">>

\* What main() sees of a call made under cli_main: it returns, or it raises
\* SystemExit with a code, or it raises another exception.
Returned == "return"
SystemExit1 == "SystemExit1"
SystemExit2 == "SystemExit2"
Raised == "Exception"

\* cli_main: SystemExit passes its code on, any other exception exits 1.
cli_main(outcome) ==
  CASE outcome = Returned -> 0
    [] outcome = SystemExit1 -> 1
    [] outcome = SystemExit2 -> 2
    [] outcome = Raised -> 1

\* Outcomes of one call of a cloud API: it returns, it raises ClientError (the
\* service refused: not found, access denied, not empty), or it raises an
\* exception that is not a ClientError (no credentials, no connection,
\* parameter validation).
ApiOk == "ok"
ClientError == "ClientError"
OtherError == "OtherError"
ApiOutcomes == {ApiOk, ClientError, OtherError}

\* The sts property and get_caller_identity inside the try of
\* synthesize_app_name_and_account.  Without boto3 the property raises
\* SystemExit(2) inside the try; matching it against "except ClientError"
\* evaluates the name ClientError, which the failed import never bound, so a
\* NameError leaves the function instead.
IdentityLookup(boto3, sts, account) ==
  IF ~boto3 THEN [outcome |-> Raised, account_id |-> NoText]
  ELSE IF sts = ClientError THEN [outcome |-> SystemExit2, account_id |-> NoText]
  ELSE IF sts = OtherError THEN [outcome |-> Raised, account_id |-> NoText]
  ELSE IF account = NoText THEN [outcome |-> SystemExit2, account_id |-> NoText]
  ELSE [outcome |-> Returned, account_id |-> account]

\* synthesize_app_name_and_account as a function of its inputs: the
\* --app-name override, the app_name of properties.<env>.json (NoText when the
\* file is missing, unreadable or has no such field), the environment, and
\* the identity lookup.
synthesize_app_name_and_account(override, props, env, boto3, sts, account) ==
  LET app == IF override # NoText THEN override ELSE props
      safe == SafeAppName(app, env)
      id == IdentityLookup(boto3, sts, account)
  IN IF app = NoText
       THEN [outcome |-> SystemExit2, app_name |-> NoText, safe_app_name |-> NoText,
             account_id |-> NoText, ssm_param_name |-> NoText]
       ELSE IF id.outcome # Returned
         THEN [outcome |-> id.outcome, app_name |-> app, safe_app_name |-> safe,
               account_id |-> NoText, ssm_param_name |-> NoText]
         ELSE [outcome |-> Returned, app_name |-> app, safe_app_name |-> safe,
               account_id |-> id.account_id,
               ssm_param_name |-> SsmParamName(id.account_id, safe)]

\* ------------------------------------------------------------ backend descriptor
\* REGION of main.py, one token: the model runs in one region.
Region == <<"us-east-1">>

\* The backend block with the bucket name written without its quotes.
build_backend_content_unquoted(bucket, region, account, safe) ==
  <<"terraform {", "\n", "  ", "backend", " ", Q, "s3", Q, " ", "{", "\n",
    "    ", "bucket", " ", "=", " ">> \o bucket \o <<"\n",
    "    ", "key", "    ", "=", " ", Q, "terraform.">> \o account \o <<"-">>
    \o region \o <<"-">> \o safe \o <<".tfstate", Q, "\n",
    "    ", "region", " ", "=", " ", Q>> \o region \o <<Q, "\n",
    "    ", "encrypt = true", "\n",
    "    ", "use_lockfile = true", "\n",
    "  ", "}", "\n", "}", "\n">>

\* build_backend_content(bucket, region, account): the backend block, with the
\* safe application key of the wrapper in the key of the state object.
build_backend_content(bucket, region, account, safe) ==
  <<"terraform {", "\n", "  ", "backend", " ", Q, "s3", Q, " ", "{", "\n",
    "    ", "bucket", " ", "=", " ", Q>> \o bucket \o <<Q, "\n",
    "    ", "key", "    ", "=", " ", Q, "terraform.">> \o account \o <<"-">>
    \o region \o <<"-">> \o safe \o <<".tfstate", Q, "\n",
    "    ", "region", " ", "=", " ", Q>> \o region \o <<Q, "\n",
    "    ", "encrypt = true", "\n",
    "    ", "use_lockfile = true", "\n",
    "  ", "}", "\n", "}", "\n">>

\* The value 'None' that ensure_backend_via_ssm_or_bootstrap compares with.
NoneText == <<"N", "o", "n", "e">>

\* \s of the pattern: the white-space tokens.
IsSpace(tok) == tok \in {" ", "  ", "    ", "\n"}

\* \s* from position i: the first position at or after i that holds no white space.
RECURSIVE SkipSpace(_, _)
SkipSpace(t, i) ==
  IF i <= Len(t) /\ IsSpace(t[i]) THEN SkipSpace(t, i + 1) ELSE i

\* [^"]+ from position i, greedy: the first position at or after i that holds a
\* double quote, or Len(t) + 1.
RECURSIVE QuoteFrom(_, _)
QuoteFrom(t, i) ==
  IF i <= Len(t) /\ t[i] # Q THEN QuoteFrom(t, i + 1) ELSE i

\* Whether bucket\s*=\s*"([^"]+)" matches t starting at position i.
MatchAt(t, i) ==
  LET j == SkipSpace(t, i + 1)
      k == SkipSpace(t, j + 1)
      m == QuoteFrom(t, k + 1)
  IN /\ i <= Len(t) /\ t[i] = "bucket"
     /\ j <= Len(t) /\ t[j] = "="
     /\ k <= Len(t) /\ t[k] = Q
     /\ m > k + 1
     /\ m <= Len(t)

\* group(1) of the match starting at i.
GroupAt(t, i) ==
  LET j == SkipSpace(t, i + 1)
      k == SkipSpace(t, j + 1)
      m == QuoteFrom(t, k + 1)
  IN SubSeq(t, k + 1, m - 1)

\* The bucket name taken from the last match of the pattern, not the first.
ExtractBucket_last(ssm_value, account, safe) ==
  LET hits == {i \in 1..Len(ssm_value) : MatchAt(ssm_value, i)}
  IN IF hits = {} THEN DefaultBucket(account, safe)
     ELSE GroupAt(ssm_value, CHOOSE i \in hits : \A h \in hits : i >= h)

\* m = re.search(r'bucket\s*=\s*"([^"]+)"', ssm_value);
\* bucket_name = m.group(1) if m else f"{account_id}-{safe_app_name}-tfstate"
ExtractBucket(ssm_value, account, safe) ==
  LET hits == {i \in 1..Len(ssm_value) : MatchAt(ssm_value, i)}
  IN IF hits = {} THEN DefaultBucket(account, safe)
     ELSE GroupAt(ssm_value, CHOOSE i \in hits : \A h \in hits : i <= h)

\* ------------------------------------------------------------ confirmation
\* What input() gives: a line, or EOFError.
EOF == <<"<EOF>">>
Answers == {NoText, <<"Y", "e", "s">>, <<"n">>, <<" ", "y">>, EOF}

\* confirm_prompt with yes as the default answer: only a line starting with n declines.
confirm_prompt_default_yes(force, resp) ==
  IF force THEN TRUE
  ELSE IF resp = EOF THEN FALSE
  ELSE ~(Len(resp) >= 1 /\ Lower(resp)[1] = "n")

\* confirm_prompt: FORCE_DELETE answers yes; EOFError answers no; otherwise
\* resp.lower().startswith('y').
confirm_prompt(force, resp) ==
  IF force THEN TRUE
  ELSE IF resp = EOF THEN FALSE
  ELSE Len(resp) >= 1 /\ Lower(resp)[1] = "y"

\* ------------------------------------------------------------ the world of a run
\* The one application, account and environment the runs of Spec are made for.
TheApp == <<"A", "c">>
TheAccount == <<"1", "2">>
TheEnv == EnvOrDefault(NoText)
TheSafe == SafeAppName(TheApp, TheEnv)

\* The bucket name the bootstrap stack declares, which BUCKET_OVERRIDE may
\* also give; the other name the program can come to use is the default one.
B1 == <<"s", "1">>
tfBucketName == B1
BucketNames == {DefaultBucket(TheAccount, TheSafe), B1}

\* A stored value that is no backend block (no bucket = "..." in it).
Garbage == <<"terraform {", "\n", "}", "\n">>

\* A stored value written by hand: an empty bucket = "" that the pattern
\* does not match, then the bucket of the backend, then another bucket.
TwoBuckets ==
  <<"bucket", "=", Q, Q, "\n",
    "bucket", "  ", "=", Q>> \o B1 \o <<Q, "\n",
    "bucket", " ", "=", " ", Q, "x", Q, "\n">>

Commands == {"bootstrap", "init", "plan", "apply", "destroy", "destroy-all", "clean"}

\* Exit status of a run that has not ended.
Running == -1

\* A bucket that does not exist.
NoBucket == -1

\* A write that drops the last token of the content.
File_trimmed(c) == [exists |-> TRUE, content |-> SubSeq(c, 1, Len(c) - 1)]

\* backend.tf of a directory.
NoFile == [exists |-> FALSE, content |-> NoText]
File(c) == [exists |-> TRUE, content |-> c]

\* Outcomes of one child process: exit status 0, another exit status, or the
\* program could not be started (OSError).
ProcOk == "ok"
ProcNonZero == "nonzero"
ProcNotStarted == "notstarted"
ProcOutcomes == {ProcOk, ProcNonZero, ProcNotStarted}

VARIABLES
  runs,            \* runs started so far
  pc,              \* position of the current run in main()
  command,         \* the command of the current run
  force,           \* FORCE_DELETE (--force)
  exitCode,        \* exit status of the current run, Running until it ends
  app_name, safe_app_name, account_id, ssm_param_name,   \* fields of TfWrapper
  ssm_value,       \* local of ensure_backend_via_ssm_or_bootstrap / delete_bootstrap_stack
  bucket_name,     \* local of run_bootstrap_and_create_ssm / delete_bootstrap_stack
  found,           \* index of the bootstrap directory found among the candidates, 0: none
  toList,          \* keys list_object_versions has not yet listed
  removed_count,   \* local of clean_terraform_files
  log,             \* the calls the current run has made, in order
  ssmStore,        \* value of the backend parameter, NoText: no such parameter
  buckets,         \* bucket name -> number of object versions, NoBucket: none
  targetBackend,   \* backend.tf of the target directory
  bootDirs,        \* which candidates exist: <<target_dir/bootstrap, ./bootstrap>>
  bootBackend,     \* backend.tf present in each candidate
  tfCache,         \* .terraform present in the target directory
  atStart,         \* the parameter, the buckets and the files as the current run found them
  pair,            \* identity check: two (application, environment, account) triples
  resolved         \* identity check: what the resolver made of each, << >> before

runVars == <<runs, pc, command, force, exitCode, app_name, safe_app_name, account_id,
             ssm_param_name, ssm_value, bucket_name, found, toList, removed_count, log, atStart>>
worldVars == <<ssmStore, buckets, targetBackend, bootDirs, bootBackend, tfCache>>
idVars == <<pair, resolved>>
vars == <<runVars, worldVars, idVars>>

\* The parameter, the buckets and the files.
World == [ssm |-> ssmStore, buckets |-> buckets, target |-> targetBackend,
          boot |-> bootBackend, cache |-> tfCache]

\* One call of the run: the function making it, the operation, the text it
\* was given or gave back (a value, a bucket name, an answer), how it ended.
Ev(fn, op, val, res) == [fn |-> fn, op |-> op, val |-> val, res |-> res]

\* ------------------------------------------------------------ initial states
\* The stale or missing files of the directories, and what the cloud holds:
\* nothing yet, a value left by hand, or a backend bootstrapped earlier.
Worlds ==
  {[ssm |-> NoText, objects |-> NoBucket],
   [ssm |-> NoneText, objects |-> NoBucket],
   [ssm |-> Garbage, objects |-> 1],
   [ssm |-> TwoBuckets, objects |-> 1]}

InitWorld ==
  /\ \E w \in Worlds :
       /\ ssmStore = w.ssm
       /\ buckets = [b \in BucketNames |-> IF b = tfBucketName THEN w.objects ELSE NoBucket]
  /\ bootDirs \in {<<FALSE, FALSE>>, <<TRUE, FALSE>>, <<FALSE, TRUE>>}
  /\ bootBackend = bootDirs
  /\ targetBackend = NoFile
  /\ tfCache = FALSE

InitRun ==
  /\ runs = 0
  /\ pc = "done"
  /\ command = "none"
  /\ force = FALSE
  /\ exitCode = 0
  /\ app_name = NoText /\ safe_app_name = NoText
  /\ account_id = NoText /\ ssm_param_name = NoText
  /\ ssm_value = NoText
  /\ bucket_name = NoText
  /\ found = 0
  /\ toList = 0
  /\ removed_count = 0
  /\ log = << >>

NoPair == << >>
InitId == pair = NoPair /\ resolved = << >>

Init == InitRun /\ InitWorld /\ InitId /\ atStart = World

\* ------------------------------------------------------------ helpers of the steps
\* sys.exit(code), or an exception, reaching cli_main.
Exit(outcome) ==
  /\ pc' = "done"
  /\ exitCode' = cli_main(outcome)

Logged(entries) == log' = log \o entries

\* The search of the candidates taking the first one when none is a directory.
FirstBootDir_assume_first(dirs) ==
  IF dirs[2] /\ ~dirs[1] THEN 2 ELSE 1

\* The first candidate that is a directory (lines 259-264 and 318-323).
FirstBootDir(dirs) ==
  IF dirs[1] THEN 1 ELSE IF dirs[2] THEN 2 ELSE 0

\* run_and_log that never ends the program on a failed command.
run_and_log_unchecked(res, check) ==
  IF res = ProcNotStarted THEN Raised ELSE Returned

\* run_and_log(cmd, cwd, check): CalledProcessError ends the program with 1
\* when check is set; nothing else is caught.
run_and_log(res, check) ==
  IF res = ProcNotStarted THEN Raised
  ELSE IF res = ProcNonZero /\ check THEN SystemExit1
  ELSE Returned

\* get_ssm_backend: the value, '' on ClientError; another exception leaves it.
get_ssm_backend(store, res) ==
  IF res = ApiOk THEN [outcome |-> Returned, value |-> store]
  ELSE IF res = ClientError THEN [outcome |-> Returned, value |-> NoText]
  ELSE [outcome |-> Raised, value |-> NoText]

\* How get_parameter and delete_parameter can end: they succeed only on a
\* parameter that exists.
ParameterOutcomes(store) == IF store = NoText THEN {ClientError, OtherError} ELSE ApiOutcomes

\* put_ssm_backend that only logs a ClientError.
put_ssm_backend_logged(res) ==
  IF res = OtherError THEN Raised ELSE Returned

\* put_ssm_backend: ClientError is sys.exit(1); another exception leaves it.
put_ssm_backend(res) ==
  IF res = ApiOk THEN Returned
  ELSE IF res = ClientError THEN SystemExit1
  ELSE Raised

\* delete_ssm_backend: ClientError is logged; another exception leaves it.
delete_ssm_backend(res) ==
  IF res = OtherError THEN Raised ELSE Returned

\* The test of line 301 without the comparison with 'None'.
UseStoredBackend_any(value) == value # NoText

\* if ssm_value and ssm_value != 'None' (line 301)
UseStoredBackend(value) == value # NoText /\ value # NoneText

\* ------------------------------------------------------------ main()
\* parse_args and the option handling of main (lines 413-433): a new process.
StartRun ==
  /\ pc = "done"
  /\ runs < MaxRuns
  /\ runs' = runs + 1
  /\ \E c \in Commands : command' = c /\ pc' = IF c = "clean" THEN "confirm" ELSE "synthesize"
  /\ force' \in BOOLEAN
  /\ exitCode' = Running
  /\ app_name' = NoText /\ safe_app_name' = NoText
  /\ account_id' = NoText /\ ssm_param_name' = NoText
  /\ ssm_value' = NoText /\ bucket_name' = NoText
  /\ found' = 0 /\ toList' = 0 /\ removed_count' = 0
  /\ log' = << >>
  /\ atStart' = World
  /\ UNCHANGED <<worldVars, idVars>>

\* main going from identity resolution to the initialize of the target
\* directory, without backend resolution.
AfterSynthesize_skip_backend(c) ==
  CASE c = "bootstrap" -> "bootstrap"
    [] c \in {"init", "plan", "apply"} -> "tf_init"
    [] c \in {"destroy", "destroy-all"} -> "confirm"

\* Where main goes once identity is resolved (lines 435-469).
AfterSynthesize(c) ==
  CASE c = "bootstrap" -> "bootstrap"
    [] c \in {"init", "plan", "apply"} -> "ensure"
    [] c \in {"destroy", "destroy-all"} -> "confirm"

\* wrapper.synthesize_app_name_and_account() (lines 100-133).
Synthesize ==
  /\ pc = "synthesize"
  /\ \E override \in {NoText, TheApp}, props \in {NoText, TheApp}, boto3 \in BOOLEAN,
        sts \in ApiOutcomes, account \in {NoText, TheAccount} :
       LET r == synthesize_app_name_and_account(override, props, TheEnv, boto3, sts, account)
           call == IF r.app_name = NoText THEN << >>
                   ELSE IF ~boto3 THEN <<Ev("synthesize_app_name_and_account", "sts", NoText, "no boto3")>>
                   ELSE <<Ev("synthesize_app_name_and_account", "sts.get_caller_identity", NoText, sts)>>
       IN /\ app_name' = r.app_name
          /\ safe_app_name' = r.safe_app_name
          /\ account_id' = r.account_id
          /\ ssm_param_name' = r.ssm_param_name
          /\ Logged(call)
          /\ IF r.outcome = Returned
               THEN pc' = AfterSynthesize(command) /\ exitCode' = exitCode
               ELSE Exit(r.outcome)
  /\ UNCHANGED <<runs, command, force, ssm_value, bucket_name, found, toList, removed_count, atStart>>
  /\ UNCHANGED <<worldVars, idVars>>

\* if confirm_prompt(...): ... else: log('Aborted ...') (lines 460-476), then
\* log('Done.') and the return of main.
Confirm ==
  /\ pc = "confirm"
  /\ \E resp \in Answers :
       /\ Logged(IF force THEN << >>
                 ELSE <<Ev("confirm_prompt", "input", resp,
                           IF resp = EOF THEN "EOFError" ELSE "line")>>)
       /\ IF confirm_prompt(force, resp)
            THEN /\ pc' = IF command = "clean" THEN "clean" ELSE "ensure"
                 /\ exitCode' = exitCode
            ELSE Exit(Returned)
  /\ UNCHANGED <<runs, command, force, app_name, safe_app_name, account_id, ssm_param_name,
                 ssm_value, bucket_name, found, toList, removed_count, atStart>>
  /\ UNCHANGED <<worldVars, idVars>>

\* Where main goes after the initialize of the target directory.
AfterInit(c) ==
  CASE c = "init" -> "done"
    [] c = "plan" -> "tf_plan"
    [] c = "apply" -> "tf_apply"
    [] c \in {"destroy", "destroy-all"} -> "tf_destroy"

\* ensure_backend_via_ssm_or_bootstrap (lines 298-306): Get, then either
\* write_backend_hcl_to_file(ssm_value) or the bootstrap sub-flow.
Ensure ==
  /\ pc = "ensure"
  /\ \E res \in ParameterOutcomes(ssmStore) :
       LET g == get_ssm_backend(ssmStore, res)
           get == Ev("ensure_backend_via_ssm_or_bootstrap", "ssm.get_parameter", g.value, res)
       IN IF g.outcome # Returned
            THEN /\ Exit(g.outcome)
                 /\ Logged(<<get>>)
                 /\ UNCHANGED <<ssm_value, targetBackend>>
            ELSE /\ ssm_value' = g.value
                 /\ exitCode' = exitCode
                 /\ IF UseStoredBackend(g.value)
                      THEN /\ targetBackend' = File(g.value)
                           /\ Logged(<<get, Ev("ensure_backend_via_ssm_or_bootstrap",
                                               "write_backend_hcl_to_file", g.value, "ok")>>)
                           /\ pc' = "tf_init"
                      ELSE /\ UNCHANGED targetBackend
                           /\ Logged(<<get>>)
                           /\ pc' = "bootstrap"
  /\ UNCHANGED <<runs, command, force, app_name, safe_app_name, account_id, ssm_param_name,
                 bucket_name, found, toList, removed_count, atStart>>
  /\ UNCHANGED <<ssmStore, buckets, bootDirs, bootBackend, tfCache, idVars>>

\* ------------------------------------------------------------ bootstrap sub-flow
\* run_bootstrap_and_create_ssm, lines 259-270: find the bootstrap directory
\* or sys.exit(1); erase_backend_tf(found).
BootFind ==
  /\ pc = "bootstrap"
  /\ LET d == FirstBootDir(bootDirs)
     IN /\ found' = d
        /\ IF d = 0
             THEN /\ Exit(SystemExit1)
                  /\ UNCHANGED <<bootBackend, log>>
             ELSE /\ bootBackend' = [bootBackend EXCEPT ![d] = FALSE]
                  /\ Logged(<<Ev("run_bootstrap_and_create_ssm", "erase_backend_tf", NoText, "ok")>>)
                  /\ pc' = "boot_init"
                  /\ exitCode' = exitCode
  /\ UNCHANGED <<runs, command, force, app_name, safe_app_name, account_id, ssm_param_name,
                 ssm_value, bucket_name, toList, removed_count, atStart>>
  /\ UNCHANGED <<ssmStore, buckets, targetBackend, bootDirs, tfCache, idVars>>

\* A provisioning-tool step made with check=False.
Terraform_unchecked(at, fn, op, next) ==
  /\ pc = at
  /\ \E res \in ProcOutcomes :
       LET r == run_and_log(res, FALSE)
       IN /\ Logged(<<Ev(fn, op, NoText, res)>>)
          /\ IF r = Returned
               THEN pc' = next /\ exitCode' = IF next = "done" THEN cli_main(Returned) ELSE exitCode
               ELSE Exit(r)

\* One run_and_log(..., check=True) of the provisioning tool: the step the
\* run is at, the log entry, and the step that follows its success.
Terraform(at, fn, op, next) ==
  /\ pc = at
  /\ \E res \in ProcOutcomes :
       LET r == run_and_log(res, TRUE)
       IN /\ Logged(<<Ev(fn, op, NoText, res)>>)
          /\ IF r = Returned
               THEN pc' = next /\ exitCode' = IF next = "done" THEN cli_main(Returned) ELSE exitCode
               ELSE Exit(r)

\* line 273: terraform init in the bootstrap directory.
BootInit ==
  /\ Terraform("boot_init", "run_bootstrap_and_create_ssm", "terraform init (bootstrap)", "boot_apply")
  /\ UNCHANGED <<runs, command, force, app_name, safe_app_name, account_id, ssm_param_name,
                 ssm_value, bucket_name, found, toList, removed_count, atStart>>
  /\ UNCHANGED <<worldVars, idVars>>

\* line 274: terraform apply in the bootstrap directory; its success leaves
\* the bucket the stack declares in existence (apply creates what is missing).
BootApply ==
  /\ Terraform("boot_apply", "run_bootstrap_and_create_ssm", "terraform apply (bootstrap)", "boot_bucket")
  /\ buckets' = IF pc' = "boot_bucket" /\ buckets[tfBucketName] = NoBucket
                  THEN [buckets EXCEPT ![tfBucketName] = 0]
                  ELSE buckets
  /\ UNCHANGED <<runs, command, force, app_name, safe_app_name, account_id, ssm_param_name,
                 ssm_value, bucket_name, found, toList, removed_count, atStart>>
  /\ UNCHANGED <<ssmStore, targetBackend, bootDirs, bootBackend, tfCache, idVars>>

\* The bucket name taken as the default whatever the override and the output.
ChooseBucketName_default(override, output, account, safe) == DefaultBucket(account, safe)

\* lines 277-291: the bucket name from the override, else from the
\* bucket_name output of the stack, else the default name.
ChooseBucketName(override, output, account, safe) ==
  IF override # NoText THEN override
  ELSE IF output # NoText THEN output
  ELSE DefaultBucket(account, safe)

\* lines 284-289: subprocess.run(terraform output -json, check=True) and the
\* reading of bucket_name from it, inside try/except Exception: pass.  What
\* the query gives: the declared name, or nothing when the command failed,
\* could not be started, or the stack has no such output.
terraform_output(res, output) == IF res = ProcOk THEN output ELSE NoText

\* lines 277-291.  BUCKET_OVERRIDE is read from the environment by main;
\* without it the output of the stack is queried.
BootBucketName ==
  /\ pc = "boot_bucket"
  /\ \E override \in {NoText, B1}, res \in ProcOutcomes, output \in {NoText, tfBucketName} :
       LET got == terraform_output(res, output)
       IN /\ bucket_name' = ChooseBucketName(override, got, account_id, safe_app_name)
          /\ Logged(IF override # NoText THEN << >>
                    ELSE <<Ev("run_bootstrap_and_create_ssm", "terraform output", got, res)>>)
  /\ pc' = "boot_put"
  /\ UNCHANGED <<runs, command, force, exitCode, app_name, safe_app_name, account_id,
                 ssm_param_name, ssm_value, found, toList, removed_count, atStart>>
  /\ UNCHANGED <<worldVars, idVars>>

\* lines 293-296: build the descriptor, put_ssm_backend, then
\* write_backend_hcl_to_file; bootstrap ends there, the other commands go on
\* to the initialize of the target directory.
BootPut ==
  /\ pc = "boot_put"
  /\ \E res \in ApiOutcomes :
       LET backend_content == build_backend_content(bucket_name, Region, account_id, safe_app_name)
           r == put_ssm_backend(res)
           put == Ev("run_bootstrap_and_create_ssm", "ssm.put_parameter", backend_content, res)
       IN /\ ssmStore' = IF res = ApiOk THEN backend_content ELSE ssmStore
          /\ IF r = Returned
               THEN /\ targetBackend' = File(backend_content)
                    /\ Logged(<<put, Ev("run_bootstrap_and_create_ssm",
                                        "write_backend_hcl_to_file", backend_content, "ok")>>)
                    /\ IF command = "bootstrap" THEN Exit(Returned)
                       ELSE pc' = "tf_init" /\ exitCode' = exitCode
               ELSE /\ UNCHANGED targetBackend
                    /\ Logged(<<put>>)
                    /\ Exit(r)
  /\ UNCHANGED <<runs, command, force, app_name, safe_app_name, account_id, ssm_param_name,
                 ssm_value, bucket_name, found, toList, removed_count, atStart>>
  /\ UNCHANGED <<buckets, bootDirs, bootBackend, tfCache, idVars>>

\* ------------------------------------------------------------ the target directory
\* The bucket a backend file names, NoText when it names none: what the
\* provisioning tool keeps its state in.
BackendBucket(file) ==
  LET hits == {i \in 1..Len(file.content) : MatchAt(file.content, i)}
  IN IF ~file.exists \/ hits = {} THEN NoText
     ELSE GroupAt(file.content, CHOOSE i \in hits : \A h \in hits : i <= h)

\* Objects of bucket b among bs, NoBucket when there is no such bucket.
ObjectsIn(bs, b) == IF b \in DOMAIN bs THEN bs[b] ELSE NoBucket
Objects(b) == ObjectsIn(buckets, b)

\* The provisioning tool wrote its state: one more object version in the
\* bucket of the backend file, when that bucket exists.
StateWritten ==
  LET b == BackendBucket(targetBackend)
  IN IF Objects(b) # NoBucket /\ Objects(b) < MaxObjects
       THEN [buckets EXCEPT ![b] = @ + 1]
       ELSE buckets

\* run_terraform_init_with_backend_file (lines 250-255).
TfInit ==
  /\ Terraform("tf_init", "run_terraform_init_with_backend_file", "terraform init", AfterInit(command))
  /\ tfCache' = (tfCache \/ exitCode' \in {Running, 0})
  /\ UNCHANGED <<runs, command, force, app_name, safe_app_name, account_id, ssm_param_name,
                 ssm_value, bucket_name, found, toList, removed_count, atStart>>
  /\ UNCHANGED <<ssmStore, buckets, targetBackend, bootDirs, bootBackend, idVars>>

\* line 450: terraform plan.
TfPlan ==
  /\ Terraform("tf_plan", "main", "terraform plan", "done")
  /\ UNCHANGED <<runs, command, force, app_name, safe_app_name, account_id, ssm_param_name,
                 ssm_value, bucket_name, found, toList, removed_count, atStart>>
  /\ UNCHANGED <<worldVars, idVars>>

\* line 456: terraform apply.
TfApply ==
  /\ Terraform("tf_apply", "main", "terraform apply", "done")
  /\ buckets' = IF exitCode' = 0 THEN StateWritten ELSE buckets
  /\ UNCHANGED <<runs, command, force, app_name, safe_app_name, account_id, ssm_param_name,
                 ssm_value, bucket_name, found, toList, removed_count, atStart>>
  /\ UNCHANGED <<ssmStore, targetBackend, bootDirs, bootBackend, tfCache, idVars>>

\* delete_top_level_stack, line 313: terraform destroy; destroy ends there,
\* destroy-all goes on to delete_bootstrap_stack.
TfDestroy ==
  /\ Terraform("tf_destroy", "delete_top_level_stack", "terraform destroy",
               IF command = "destroy-all" THEN "delete_bootstrap" ELSE "done")
  /\ buckets' = IF exitCode' \in {Running, 0} THEN StateWritten ELSE buckets
  /\ UNCHANGED <<runs, command, force, app_name, safe_app_name, account_id, ssm_param_name,
                 ssm_value, bucket_name, found, toList, removed_count, atStart>>
  /\ UNCHANGED <<ssmStore, targetBackend, bootDirs, bootBackend, tfCache, idVars>>

\* ------------------------------------------------------------ bootstrap teardown
\* delete_bootstrap_stack, lines 318-333: no bootstrap directory: return;
\* else Get and the bucket name from the stored descriptor.
DbFind ==
  /\ pc = "delete_bootstrap"
  /\ LET d == FirstBootDir(bootDirs)
     IN /\ found' = d
        /\ IF d = 0
             THEN /\ Exit(Returned)
                  /\ UNCHANGED <<ssm_value, bucket_name, log>>
             ELSE \E res \in ParameterOutcomes(ssmStore) :
                    LET g == get_ssm_backend(ssmStore, res)
                    IN /\ Logged(<<Ev("delete_bootstrap_stack", "ssm.get_parameter", g.value, res)>>)
                       /\ IF g.outcome # Returned
                            THEN /\ Exit(g.outcome)
                                 /\ UNCHANGED <<ssm_value, bucket_name>>
                            ELSE /\ ssm_value' = g.value
                                 /\ bucket_name' = ExtractBucket(g.value, account_id, safe_app_name)
                                 /\ pc' = "delete_ssm"
                                 /\ exitCode' = exitCode
  /\ UNCHANGED <<runs, command, force, app_name, safe_app_name, account_id, ssm_param_name,
                 toList, removed_count, atStart>>
  /\ UNCHANGED <<worldVars, idVars>>

\* delete_bootstrap_stack returning once the parameter is deleted.
AfterDeleteSsm_return(bucket) == "done"

\* delete_bootstrap_stack going to delete_bucket without emptying the bucket.
AfterDeleteSsm_no_empty(bucket) == IF bucket # NoText THEN "delete_bucket" ELSE "done"

\* line 341, if bucket_name: the step after the parameter and the backend
\* file of the bootstrap directory are gone.
AfterDeleteSsm(bucket) == IF bucket # NoText THEN "empty_bucket" ELSE "done"

\* lines 336-341: delete_ssm_backend(), erase_backend_tf(found).
DbDeleteSsm ==
  /\ pc = "delete_ssm"
  /\ \E res \in ParameterOutcomes(ssmStore) :
       LET r == delete_ssm_backend(res)
           del == Ev("delete_bootstrap_stack", "ssm.delete_parameter", NoText, res)
       IN /\ ssmStore' = IF res = ApiOk THEN NoText ELSE ssmStore
          /\ IF r # Returned
               THEN /\ Exit(r)
                    /\ Logged(<<del>>)
                    /\ UNCHANGED bootBackend
               ELSE /\ bootBackend' = [bootBackend EXCEPT ![found] = FALSE]
                    /\ Logged(<<del, Ev("delete_bootstrap_stack", "erase_backend_tf", NoText, "ok")>>)
                    /\ pc' = AfterDeleteSsm(bucket_name)
                    /\ exitCode' = IF pc' = "done" THEN cli_main(Returned) ELSE exitCode
  /\ UNCHANGED <<runs, command, force, app_name, safe_app_name, account_id, ssm_param_name,
                 ssm_value, bucket_name, found, toList, removed_count, atStart>>
  /\ UNCHANGED <<buckets, targetBackend, bootDirs, tfCache, idVars>>

\* empty_s3_bucket, lines 199-221: the fast path, aws s3 rm --recursive with
\* check=False inside try/except Exception: it removes some or all of the
\* objects (versions and delete markers may stay), or fails; nothing it does
\* stops the emptying.
DbEmptyFast ==
  /\ pc = "empty_bucket"
  /\ \E res \in ProcOutcomes :
       /\ run_and_log(res, FALSE) \in {Returned, Raised}
       /\ Logged(<<Ev("empty_s3_bucket", "aws s3 rm", bucket_name, res)>>)
       /\ IF res = ProcOk /\ Objects(bucket_name) # NoBucket
            THEN \E left \in 0..Objects(bucket_name) :
                   buckets' = [buckets EXCEPT ![bucket_name] = left]
            ELSE UNCHANGED buckets
  /\ toList' = IF ObjectsIn(buckets', bucket_name) = NoBucket THEN 0
               ELSE ObjectsIn(buckets', bucket_name)
  /\ pc' = "empty_page"
  /\ UNCHANGED <<runs, command, force, exitCode, app_name, safe_app_name, account_id,
                 ssm_param_name, ssm_value, bucket_name, found, removed_count, atStart>>
  /\ UNCHANGED <<ssmStore, targetBackend, bootDirs, bootBackend, tfCache, idVars>>

\* How empty_s3_bucket ends, as delete_bootstrap_stack sees it (lines 343-346).
EmptyEnded(how) == Ev("delete_bootstrap_stack", "empty_s3_bucket", bucket_name, how)

\* empty_s3_bucket, lines 221-234: one page of list_object_versions and the
\* delete_objects of its keys.  ClientError ends the loop (line 231); another
\* exception leaves empty_s3_bucket and is caught by its caller (line 345);
\* delete_objects may also return with some keys not deleted.
DbEmptyPage ==
  /\ pc = "empty_page"
  /\ \/ \E res \in {ClientError, OtherError} :
          /\ Logged(<<Ev("empty_s3_bucket", "s3.list_object_versions", bucket_name, res),
                      EmptyEnded(IF res = ClientError THEN "returned" ELSE "raised")>>)
          /\ pc' = "delete_bucket"
          /\ UNCHANGED <<buckets, toList>>
     \/ /\ Objects(bucket_name) # NoBucket
        /\ toList = 0
        /\ Logged(<<Ev("empty_s3_bucket", "s3.list_object_versions", bucket_name, "end"),
                    EmptyEnded("returned")>>)
        /\ pc' = "delete_bucket"
        /\ UNCHANGED <<buckets, toList>>
     \/ /\ Objects(bucket_name) # NoBucket
        /\ toList > 0
        /\ \E k \in 1..toList, res \in ApiOutcomes :
             LET list == Ev("empty_s3_bucket", "s3.list_object_versions", bucket_name, ApiOk)
             IN IF res = ApiOk
                  THEN \E deleted \in 0..k :
                         /\ buckets' = [buckets EXCEPT ![bucket_name] = @ - deleted]
                         /\ toList' = toList - k
                         /\ Logged(<<list, Ev("empty_s3_bucket", "s3.delete_objects", bucket_name,
                                             IF deleted = k THEN "ok" ELSE "errors")>>)
                         /\ pc' = "empty_page"
                  ELSE /\ Logged(<<list, Ev("empty_s3_bucket", "s3.delete_objects", bucket_name, res),
                                   EmptyEnded(IF res = ClientError THEN "returned" ELSE "raised")>>)
                       /\ pc' = "delete_bucket"
                       /\ UNCHANGED <<buckets, toList>>
  /\ UNCHANGED <<runs, command, force, exitCode, app_name, safe_app_name, account_id,
                 ssm_param_name, ssm_value, bucket_name, found, removed_count, atStart>>
  /\ UNCHANGED <<ssmStore, targetBackend, bootDirs, bootBackend, tfCache, idVars>>

\* lines 348-352: ClientError from delete_bucket is logged; another exception
\* leaves delete_bootstrap_stack.
delete_bucket(res) == IF res = OtherError THEN Raised ELSE Returned

\* How delete_bucket can end: the service deletes only a bucket that exists
\* and is empty.
DeleteBucketOutcomes(objects) ==
  IF objects = 0 THEN ApiOutcomes ELSE {ClientError, OtherError}

\* lines 347-354, then log('Done.') and the return of main.
DbDeleteBucket ==
  /\ pc = "delete_bucket"
  /\ \E res \in DeleteBucketOutcomes(Objects(bucket_name)) :
       /\ Logged(<<Ev("delete_bootstrap_stack", "s3.delete_bucket", bucket_name, res)>>)
       /\ buckets' = IF res = ApiOk THEN [buckets EXCEPT ![bucket_name] = NoBucket] ELSE buckets
       /\ Exit(delete_bucket(res))
  /\ UNCHANGED <<runs, command, force, app_name, safe_app_name, account_id, ssm_param_name,
                 ssm_value, bucket_name, found, toList, removed_count, atStart>>
  /\ UNCHANGED <<ssmStore, targetBackend, bootDirs, bootBackend, tfCache, idVars>>

\* ------------------------------------------------------------ clean
\* What clean_terraform_files finds to remove, in the order of its walk
\* (os.walk, topdown=False: the bootstrap directory under the target
\* directory first, then the directories and the files of the target
\* directory itself).
CleanOrder == <<"bootstrap/backend.tf", ".terraform", "backend.tf">>

Present(item) ==
  CASE item = "bootstrap/backend.tf" -> bootDirs[1] /\ bootBackend[1]
    [] item = ".terraform" -> tfCache
    [] item = "backend.tf" -> targetBackend.exists

\* clean_terraform_files (lines 356-389): each removal may fail; the failure
\* is logged and the walk goes on.
Clean ==
  /\ pc = "clean"
  /\ \E failing \in SUBSET {i \in 1..Len(CleanOrder) : Present(CleanOrder[i])} :
       LET present == {i \in 1..Len(CleanOrder) : Present(CleanOrder[i])}
           removed == present \ failing
           entry(i) == Ev("clean_terraform_files", "remove", <<CleanOrder[i]>>,
                          IF i \in failing THEN "failed" ELSE "removed")
           entries == [n \in 1..Len(CleanOrder) |->
                         IF n \in present THEN <<entry(n)>> ELSE << >>]
       IN /\ bootBackend' = [bootBackend EXCEPT ![1] = @ /\ 1 \notin removed]
          /\ tfCache' = (tfCache /\ 2 \notin removed)
          /\ targetBackend' = IF 3 \in removed THEN NoFile ELSE targetBackend
          /\ removed_count' = Cardinality(removed)
          /\ Logged(entries[1] \o entries[2] \o entries[3])
  /\ Exit(Returned)
  /\ UNCHANGED <<runs, command, force, app_name, safe_app_name, account_id, ssm_param_name,
                 ssm_value, bucket_name, found, toList, atStart>>
  /\ UNCHANGED <<ssmStore, buckets, bootDirs, idVars>>

\* ------------------------------------------------------------ specification
Next ==
  \/ StartRun
  \/ Synthesize
  \/ Confirm
  \/ Ensure
  \/ BootFind
  \/ BootInit
  \/ BootApply
  \/ BootBucketName
  \/ BootPut
  \/ TfInit
  \/ TfPlan
  \/ TfApply
  \/ TfDestroy
  \/ DbFind
  \/ DbDeleteSsm
  \/ DbEmptyFast
  \/ DbEmptyPage
  \/ DbDeleteBucket
  \/ Clean

Spec == Init /\ [][Next]_vars

\* ------------------------------------------------------------ identity check
\* The identity resolver as a function, applied to two triples at once.
IdNames == SeqsOf({"a", "A"}, 1, MaxLen)
IdAccounts == {<<"1">>, <<"2">>}
Triples == [app : IdNames, env : IdNames, account : IdAccounts]

\* Identity resolution for a triple: the application name comes from the
\* properties file, the identity lookup returns the account.
Resolve(t) ==
  synthesize_app_name_and_account(NoText, t.app, EnvOrDefault(t.env), TRUE, ApiOk, t.account)

IdInit ==
  /\ InitRun
  /\ ssmStore = NoText
  /\ buckets = [b \in BucketNames |-> NoBucket]
  /\ bootDirs = <<FALSE, FALSE>>
  /\ bootBackend = bootDirs
  /\ targetBackend = NoFile
  /\ tfCache = FALSE
  /\ atStart = World
  /\ pair \in Triples \X Triples
  /\ resolved = << >>

ResolvePair ==
  /\ resolved = << >>
  /\ resolved' = <<Resolve(pair[1]), Resolve(pair[2])>>
  /\ UNCHANGED <<runVars, worldVars, pair>>

IdNext == ResolvePair

IdSpec == IdInit /\ [][IdNext]_vars

\* ------------------------------------------------------------ reading the log
Idx == 1..Len(log)

\* Entry i is a call of op that ended res.
Is(i, op, res) == log[i].op = op /\ log[i].res = res

\* Some call of op was made; some call of op ended res.
Called(op) == \E i \in Idx : log[i].op = op
Ended(op, res) == \E i \in Idx : Is(i, op, res)

\* The run is over.
Over == pc = "done" /\ runs > 0

\* ------------------------------------------------------------ claims
PutOp == "ssm.put_parameter"
WriteOp == "write_backend_hcl_to_file"
BootstrapFn == "run_bootstrap_and_create_ssm"

\* C1: in the bootstrap sub-flow a parameter Put is made only after terraform
\* init and then terraform apply of the bootstrap directory both succeeded
\* in the run, and the sub-flow writes the backend file of the target
\* directory only after a Put of the same descriptor succeeded.
C1_ApplyBeforePersistBeforeWrite ==
  /\ \A i \in Idx :
       /\ log[i].op = PutOp =>
            \E n \in 1..(i - 1), a \in 1..(i - 1) :
              /\ n < a
              /\ Is(n, "terraform init (bootstrap)", ProcOk)
              /\ Is(a, "terraform apply (bootstrap)", ProcOk)
       /\ (log[i].op = WriteOp /\ log[i].fn = BootstrapFn) =>
            \E p \in 1..(i - 1) : Is(p, PutOp, ApiOk) /\ log[p].val = log[i].val
  /\ (Called("terraform init (bootstrap)") /\ targetBackend # atStart.target) =>
       \E p \in Idx : Is(p, PutOp, ApiOk) /\ targetBackend = File(log[p].val)

\* init found no parameter, bootstrapped, stored the descriptor and wrote it.
C1_Witness ==
  /\ command = "init"
  /\ \E i \in Idx : log[i].op = WriteOp /\ log[i].fn = BootstrapFn
  /\ Ended(PutOp, ApiOk)
  /\ targetBackend # atStart.target

\* An answer that declines: end of input, or a line not starting with y or Y.
Declines(resp) == resp = EOF \/ resp = NoText \/ resp[1] \notin {"y", "Y"}

\* C2: destroy, destroy-all or clean without --force whose prompt is
\* declined ends at once with exit code 0, having made no call but the
\* identity lookup and the prompt, and with the parameter, the buckets and
\* the files as the run found them.
C2_DeclinedNoEffects ==
  \A i \in Idx :
    (log[i].op = "input" /\ Declines(log[i].val)) =>
      /\ ~force
      /\ command \in {"destroy", "destroy-all", "clean"}
      /\ pc = "done" /\ exitCode = 0
      /\ i = Len(log)
      /\ \A j \in Idx : log[j].op \in {"sts.get_caller_identity", "input"}
      /\ World = atStart

\* destroy-all declined by end of input, with a parameter there to delete.
C2_Witness ==
  /\ command = "destroy-all"
  /\ ~force
  /\ Called("input") /\ log[Len(log)].val = EOF
  /\ ssmStore # NoText
  /\ Over

\* C8: a failed Put of the bootstrap sub-flow ends the run with exit code 1:
\* it is the last call of the run, and the backend file of the target
\* directory is as the run found it.
C8_PutFailureFatal ==
  \A i \in Idx :
    (log[i].op = PutOp /\ log[i].res # ApiOk) =>
      /\ pc = "done" /\ exitCode = 1
      /\ i = Len(log)
      /\ targetBackend = atStart.target
      /\ ~Called("terraform init") /\ ~Called(WriteOp)

\* apply bootstrapped the backend and the Put was refused.
C8_Witness ==
  /\ command = "apply"
  /\ Ended(PutOp, ClientError)
  /\ Ended("terraform apply (bootstrap)", ProcOk)

\* ------------------------------------------------------------ teardown claims
DeleteOp == "ssm.delete_parameter"
DeleteBucketOp == "s3.delete_bucket"
EmptyOp == "empty_s3_bucket"

\* destroy-all is over and has deleted the parameter.
ParameterDeleted == command = "destroy-all" /\ Over /\ Ended(DeleteOp, ApiOk)

TeardownFns == {"delete_bootstrap_stack", "empty_s3_bucket"}

\* terraform destroy of the top-level stack succeeded before entry i.
DestroyedBefore(i) == \E d \in 1..(i - 1) : Is(d, "terraform destroy", ProcOk)

\* destroy-all ended on a failed initialize or destroy of the target directory.
FailedTopLevel ==
  /\ command = "destroy-all" /\ Over /\ Len(log) > 0
  /\ log[Len(log)].op \in {"terraform init", "terraform destroy"}
  /\ log[Len(log)].res # ProcOk

\* C4, as amended: in destroy-all no step of the bootstrap teardown is made
\* unless terraform destroy of the top-level stack succeeded earlier in the
\* run.  When the initialize or the destroy fails the command ends with exit
\* code 1 and has torn nothing down; the parameter and the bucket differ
\* from what the run found only by what backend resolution did before: a
\* parameter it Put, a bucket its bootstrap apply created.
C4_DestroyBeforeBootstrapTeardown ==
  command = "destroy-all" =>
    /\ \A i \in Idx : log[i].fn \in TeardownFns => DestroyedBefore(i)
    /\ pc \in {"delete_bootstrap", "delete_ssm", "empty_bucket", "empty_page", "delete_bucket"} =>
         Ended("terraform destroy", ProcOk)
    /\ FailedTopLevel =>
         /\ exitCode = 1
         /\ \A i \in Idx : log[i].fn \notin TeardownFns
         /\ ssmStore # atStart.ssm =>
              \E p \in Idx : Is(p, PutOp, ApiOk) /\ ssmStore = log[p].val
         /\ \A b \in BucketNames :
              buckets[b] # atStart.buckets[b] =>
                /\ b = tfBucketName
                /\ atStart.buckets[b] = NoBucket /\ buckets[b] = 0
                /\ Ended("terraform apply (bootstrap)", ProcOk)

\* destroy-all found no parameter, bootstrapped the backend, and then its
\* terraform destroy failed.
C4_Witness ==
  /\ FailedTopLevel
  /\ Is(Len(log), "terraform destroy", ProcNonZero)
  /\ ssmStore # atStart.ssm
  /\ exitCode = 1

\* C4, as stated: no teardown step without an earlier successful destroy,
\* and a failed initialize or destroy ends the command with exit code 1 and
\* the parameter and the bucket untouched.
C4_FailedDestroyLeavesUntouched ==
  command = "destroy-all" =>
    /\ \A i \in Idx : log[i].fn \in TeardownFns => DestroyedBefore(i)
    /\ FailedTopLevel =>
         /\ exitCode = 1
         /\ ssmStore = atStart.ssm
         /\ buckets = atStart.buckets

\* Emptying did not run to completion: a listing or a batch delete failed, a
\* batch delete left keys behind, or empty_s3_bucket raised.
EmptyFailed ==
  \E i \in Idx :
    \/ /\ log[i].op \in {"s3.list_object_versions", "s3.delete_objects"}
       /\ log[i].res \in {ClientError, OtherError, "errors"}
    \/ Is(i, EmptyOp, "raised")

IdentityOps == {"sts", "sts.get_caller_identity"}

\* Identity resolution has acted and left no application name or no account.
ConfigError ==
  /\ runs > 0 /\ command # "clean" /\ pc # "synthesize"
  /\ app_name = NoText \/ account_id = NoText

\* C6: a command that resolves identity and finds no application name, or
\* whose identity lookup fails or returns an empty account id, ends with exit
\* code 2 having made no call but the identity lookup; and the account id and
\* the parameter name are set whenever a backend operation has run.
C6_ConfigErrorExit2 ==
  /\ ConfigError =>
       /\ pc = "done" /\ exitCode = 2
       /\ \A i \in Idx : log[i].op \in IdentityOps
  /\ (command # "clean" /\ \E i \in Idx : log[i].op \notin IdentityOps \cup {"input"}) =>
       account_id # NoText /\ ssm_param_name # NoText

EnsureFn == "ensure_backend_via_ssm_or_bootstrap"
GetOp == "ssm.get_parameter"

\* Entry i is the Get of backend resolution.
IsEnsureGet(i) == log[i].fn = EnsureFn /\ log[i].op = GetOp

\* The values backend resolution does not use: '' and the text 'None'.
Unusable == {NoText, NoneText}

\* C7, as amended: backend resolution writes the value Get returned to the
\* backend file of the target directory, and runs no bootstrap sub-flow and
\* no Put, for every value other than the empty string and the text 'None'.
\* For the empty string (no parameter, or a service error of Get) and for
\* 'None' it writes nothing and enters the bootstrap sub-flow.  A Get that
\* fails otherwise ends the command with exit code 1.
C7_ResolutionBranchesOnGet ==
  /\ \A i \in Idx :
       IsEnsureGet(i) =>
         /\ log[i].res = OtherError =>
              i = Len(log) /\ pc = "done" /\ exitCode = 1
         /\ (log[i].res # OtherError /\ log[i].val \notin Unusable) =>
              /\ Len(log) > i
              /\ log[i + 1] = Ev(EnsureFn, WriteOp, log[i].val, "ok")
              /\ targetBackend = File(log[i].val)
              /\ \A j \in Idx : log[j].fn # BootstrapFn /\ log[j].op # PutOp
         /\ (log[i].res # OtherError /\ log[i].val \in Unusable) =>
              /\ \A j \in Idx : ~(log[j].fn = EnsureFn /\ log[j].op = WriteOp)
              /\ \/ pc = "bootstrap"
                 \/ \E j \in (i + 1)..Len(log) : log[j].fn = BootstrapFn
                 \/ pc = "done" /\ exitCode = 1 /\ found = 0 /\ i = Len(log)
  /\ (command # "bootstrap" /\ (pc = "bootstrap" \/ \E j \in Idx : log[j].fn = BootstrapFn)) =>
       \E i \in Idx : IsEnsureGet(i) /\ log[i].res # OtherError /\ log[i].val \in Unusable

\* Get returned the stored text 'None' and the command bootstrapped and Put a
\* descriptor in its place.
C7_Witness ==
  /\ \E i \in Idx : IsEnsureGet(i) /\ log[i].val = NoneText
  /\ Ended(PutOp, ApiOk)
  /\ ssmStore # NoneText

\* C7, as stated: every non-empty value returned by Get is written to the
\* backend file, with no bootstrap sub-flow and no Put.
C7_NonEmptyGetIsWritten ==
  \A i \in Idx :
    (IsEnsureGet(i) /\ log[i].res = ApiOk /\ log[i].val # NoText) =>
      /\ Len(log) > i
      /\ log[i + 1] = Ev(EnsureFn, WriteOp, log[i].val, "ok")
      /\ \A j \in Idx : log[j].fn # BootstrapFn /\ log[j].op # PutOp

\* C9: once destroy-all has started on the parameter Delete, every later
\* teardown step is attempted whatever fails, and the command ends with exit
\* code 0.
C9_TeardownNeverFatal ==
  (command = "destroy-all" /\ Over /\ Called(DeleteOp)) =>
    /\ exitCode = 0
    /\ \E i \in Idx : log[i].fn = "delete_bootstrap_stack" /\ log[i].op = "erase_backend_tf"
    /\ Called(EmptyOp)
    /\ Called(DeleteBucketOp)

\* C10: two different (account, application name, environment) triples get
\* different parameter names and different default bucket names, and in one
\* account different safe application keys.
C10_CollisionFree ==
  (resolved # << >> /\ pair[1] # pair[2]) =>
    /\ resolved[1].ssm_param_name # resolved[2].ssm_param_name
    /\ DefaultBucket(resolved[1].account_id, resolved[1].safe_app_name)
         # DefaultBucket(resolved[2].account_id, resolved[2].safe_app_name)
    /\ pair[1].account = pair[2].account =>
         resolved[1].safe_app_name # resolved[2].safe_app_name

\* ------------------------------------------------------------ the resolver's values
\* The resolver applied again and again to the same inputs: the --app-name
\* override, the app_name of the properties file, ENV, and what the identity
\* lookup gives.  pair holds the inputs, resolved the results so far.
Acme == <<"a", "c", "m", "e">>
KeyApps == SeqsOf({"a", "B"}, 0, MaxLen) \cup {Acme}
KeyEnvs == {NoText, <<"A">>, <<"p", "R">>}
KeyAccounts == {NoText, <<"1">>, <<"123456789012">>}
KeyInputs == [override : KeyApps, props : KeyApps, env : KeyEnvs,
              sts : {ApiOk, ClientError}, account : KeyAccounts]

KeyInit ==
  /\ InitRun
  /\ ssmStore = NoText
  /\ buckets = [b \in BucketNames |-> NoBucket]
  /\ bootDirs = <<FALSE, FALSE>>
  /\ bootBackend = bootDirs
  /\ targetBackend = NoFile
  /\ tfCache = FALSE
  /\ atStart = World
  /\ pair \in KeyInputs
  /\ resolved = << >>

\* One more wrapper.synthesize_app_name_and_account() on the same inputs.
ResolveAgain ==
  /\ Len(resolved) < MaxCalls
  /\ resolved' = Append(resolved,
                        synthesize_app_name_and_account(pair.override, pair.props,
                                                        EnvOrDefault(pair.env), TRUE,
                                                        pair.sts, pair.account))
  /\ UNCHANGED <<runVars, worldVars, pair>>

KeyNext == ResolveAgain

KeySpec == KeyInit /\ [][KeyNext]_vars

\* The characters str.lower() changes, among those the inputs are made of.
UpperCase == {"A", "B", "R"}

\* C11: when identity resolution succeeds the application name is the
\* override if one is given, else the one of the properties file; the safe
\* key is the application name followed by the environment, in lower case;
\* the parameter name is "/terraform/backend/", the account id, "-", the
\* safe key; and a repeated resolution gives the same values.  acme, dev,
\* 123456789012 give /terraform/backend/123456789012-acmedev.
C11_KeyAndParameterName ==
  \A n \in 1..Len(resolved) :
    LET r == resolved[n]
        env == IF pair.env = NoText THEN <<"d", "e", "v">> ELSE pair.env
        joined == r.app_name \o env
    IN r.outcome = Returned =>
         /\ r.app_name = (IF pair.override # NoText THEN pair.override ELSE pair.props)
         /\ r.account_id = pair.account
         /\ Len(r.safe_app_name) = Len(joined)
         /\ \A i \in 1..Len(joined) :
              /\ r.safe_app_name[i] \notin UpperCase
              /\ joined[i] \notin UpperCase => r.safe_app_name[i] = joined[i]
              /\ joined[i] = "A" => r.safe_app_name[i] = "a"
              /\ joined[i] = "B" => r.safe_app_name[i] = "b"
              /\ joined[i] = "R" => r.safe_app_name[i] = "r"
         /\ r.ssm_param_name
              = <<"/terraform/backend/">> \o r.account_id \o <<"-">> \o r.safe_app_name
         /\ r = resolved[1]
         /\ (r.app_name = Acme /\ pair.env = NoText /\ pair.account = <<"123456789012">>) =>
              r.ssm_param_name
                = <<"/terraform/backend/", "123456789012", "-", "a", "c", "m", "e", "d", "e", "v">>

\* Resolved twice with an override in capitals that differs from the name in
\* the properties file, and an environment in capitals.
C11_Witness ==
  /\ Len(resolved) = MaxCalls
  /\ resolved[MaxCalls].outcome = Returned
  /\ pair.override # NoText /\ pair.props # NoText /\ pair.override # pair.props
  /\ \E i \in 1..Len(pair.override) : pair.override[i] \in UpperCase
  /\ pair.env # NoText

\* ------------------------------------------------------------ the bucket of the teardown
\* The first double quote of d after position p, Len(d) + 1 when none.
NextQuote(d, p) ==
  IF \E x \in (p + 1)..Len(d) : d[x] = Q
    THEN CHOOSE x \in (p + 1)..Len(d) : d[x] = Q /\ \A y \in (p + 1)..(x - 1) : d[y] # Q
    ELSE Len(d) + 1

\* bucket, white space, =, white space, a quoted text that is not empty and
\* holds no quote: whether d has the pattern from position i on.
PatternAt(d, i) ==
  LET k == NextQuote(d, i)
      m == NextQuote(d, k)
  IN /\ d[i] = "bucket"
     /\ m <= Len(d) /\ k + 1 < m
     /\ \E j \in (i + 1)..(k - 1) :
          /\ d[j] = "="
          /\ \A x \in ((i + 1)..(k - 1)) \ {j} : d[x] \in {" ", "  ", "    ", "\n"}

\* The places of d where the pattern is found.
PatternsOf(d) == {i \in 1..Len(d) : PatternAt(d, i)}

\* The bucket the teardown of a run is to target, given what Get returned.
TargetOf(d) ==
  LET found_at == PatternsOf(d)
  IN IF found_at = {} THEN account_id \o <<"-">> \o safe_app_name \o <<"-tfstate">>
     ELSE LET first == CHOOSE i \in found_at : \A u \in found_at : i <= u
              k == NextQuote(d, first)
          IN SubSeq(d, k + 1, NextQuote(d, k) - 1)

BucketOps ==
  {"aws s3 rm", "s3.list_object_versions", "s3.delete_objects", EmptyOp, DeleteBucketOp}

\* Entry i is the Get of delete_bootstrap_stack, and it returned.
IsTeardownGet(i) ==
  log[i].fn = "delete_bootstrap_stack" /\ log[i].op = GetOp /\ log[i].res # OtherError

\* C12: the bucket that bootstrap teardown empties and deletes is the X of
\* the first bucket = "X" in the value Get returned, and the default name
\* <account id>-<safe key>-tfstate when the value is empty or has no such
\* pattern.
C12_TeardownTargetsDescriptorBucket ==
  \A i \in Idx :
    IsTeardownGet(i) =>
      /\ {bucket_name} \cup {log[j].val : j \in {x \in (i + 1)..Len(log) : log[x].op \in BucketOps}}
           = {TargetOf(log[i].val)}

\* Teardown read a descriptor naming two buckets and called delete_bucket on
\* the first; and teardown read a value without the pattern.
C12_Witness ==
  /\ \E i \in Idx : IsTeardownGet(i) /\ log[i].val = TwoBuckets
  /\ \E j \in Idx : log[j].op = DeleteBucketOp /\ log[j].val = B1
  /\ Cardinality(PatternsOf(TwoBuckets)) = 2

\* ------------------------------------------------------------ re-running the bootstrap
\* Runs of bootstrap and of init one after the other with the same inputs:
\* pair holds BUCKET_OVERRIDE and what terraform output gives for bucket_name.
RerunInputs == [override : {NoText, B1}, output : {NoText, tfBucketName}]

RerunInit ==
  /\ InitRun
  /\ InitWorld
  /\ pair \in RerunInputs
  /\ resolved = << >>
  /\ atStart = World

\* main's option handling for one more run of bootstrap or init.
StartRerun ==
  /\ pc = "done"
  /\ runs < MaxBootstraps
  /\ runs' = runs + 1
  /\ command' \in {"bootstrap", "init"}
  /\ pc' = "synthesize"
  /\ force' = FALSE
  /\ exitCode' = Running
  /\ app_name' = NoText /\ safe_app_name' = NoText
  /\ account_id' = NoText /\ ssm_param_name' = NoText
  /\ ssm_value' = NoText /\ bucket_name' = NoText
  /\ found' = 0 /\ toList' = 0 /\ removed_count' = 0
  /\ log' = << >>
  /\ atStart' = World
  /\ UNCHANGED <<worldVars, idVars>>

\* lines 277-291 with the inputs of the re-run check.
BootBucketNameFixed ==
  /\ pc = "boot_bucket"
  /\ bucket_name' = ChooseBucketName(pair.override, terraform_output(ProcOk, pair.output),
                                     account_id, safe_app_name)
  /\ Logged(IF pair.override # NoText THEN << >>
            ELSE <<Ev("run_bootstrap_and_create_ssm", "terraform output", pair.output, ProcOk)>>)
  /\ pc' = "boot_put"
  /\ UNCHANGED <<runs, command, force, exitCode, app_name, safe_app_name, account_id,
                 ssm_param_name, ssm_value, found, toList, removed_count, atStart>>
  /\ UNCHANGED <<worldVars, idVars>>

RerunNext ==
  \/ StartRerun
  \/ Synthesize
  \/ Ensure
  \/ BootFind
  \/ BootInit
  \/ BootApply
  \/ BootBucketNameFixed
  \/ BootPut
  \/ TfInit

RerunSpec == RerunInit /\ [][RerunNext]_vars

\* The bootstrap sub-flow of the run stored the descriptor and wrote it.
SubflowDone == \E i \in Idx : log[i].fn = BootstrapFn /\ Is(i, WriteOp, "ok")

\* The bucket the inputs of the re-run check name.
RerunBucket ==
  IF pair.override # NoText THEN pair.override
  ELSE IF pair.output # NoText THEN pair.output
  ELSE account_id \o <<"-">> \o safe_app_name \o <<"-tfstate">>

\* C13: whatever the runs before left behind (nothing, a run that stopped at
\* a failed Put after its apply, a run that succeeded), a run whose bootstrap
\* sub-flow completes ends with the parameter and the backend file of the
\* target directory both holding the one descriptor the inputs determine,
\* and with the bucket of the stack there once, holding what it held; and a
\* Put is made by the bootstrap sub-flow only.
C13_BootstrapRerunSameResult ==
  /\ SubflowDone =>
       /\ ssmStore = build_backend_content(RerunBucket, Region, account_id, safe_app_name)
       /\ targetBackend = File(ssmStore)
       /\ TargetOf(ssmStore) = RerunBucket
       /\ buckets[tfBucketName]
            = (IF atStart.buckets[tfBucketName] = NoBucket THEN 0
               ELSE atStart.buckets[tfBucketName])
  /\ \A i \in Idx : log[i].op = PutOp => log[i].fn = BootstrapFn
  /\ ssmStore # atStart.ssm => \E p \in Idx : Is(p, PutOp, ApiOk) /\ log[p].val = ssmStore
  /\ (runs > 1 /\ SubflowDone /\ atStart.ssm \notin {Garbage, TwoBuckets, NoneText, NoText}) =>
       ssmStore = atStart.ssm

\* A second run completed the sub-flow after a run that had applied the
\* stack and stopped at its Put: the bucket was there, the parameter was not.
C13_Witness ==
  /\ runs = 2
  /\ SubflowDone
  /\ atStart.ssm = NoText
  /\ atStart.buckets[tfBucketName] = 0

\* ------------------------------------------------------------ failures of the provisioning tool
\* The invocations made through run_and_log with check=True.
CheckedOps ==
  {"terraform init (bootstrap)", "terraform apply (bootstrap)",
   "terraform init", "terraform plan", "terraform apply", "terraform destroy"}

OutputOp == "terraform output"

\* What the run did before entry i is still there: the descriptor it Put, the
\* backend file it wrote, the bucket its bootstrap apply created.
LeftAsIs(i) ==
  /\ \A p \in 1..(i - 1) :
       Is(p, PutOp, ApiOk) => ssmStore = log[p].val
  /\ \A w \in 1..(i - 1) :
       log[w].op = WriteOp => targetBackend = File(log[w].val)
  /\ (\E a \in 1..(i - 1) : Is(a, "terraform apply (bootstrap)", ProcOk)) =>
       buckets[tfBucketName] # NoBucket

\* C14, as amended: a failed initialize, plan, apply or destroy of the
\* provisioning tool is the last call of the command, which ends with exit
\* code 1 and rolls nothing back.  A failed output query is not terminal:
\* it gives no bucket name, and the sub-flow goes on to Put a descriptor
\* naming the default bucket.
C14_CheckedToolFailureTerminal ==
  \A i \in Idx :
    /\ (log[i].op \in CheckedOps /\ log[i].res # ProcOk) =>
         /\ i = Len(log) /\ pc = "done" /\ exitCode = 1
         /\ LeftAsIs(i)
    /\ (log[i].op = OutputOp /\ log[i].res # ProcOk) =>
         /\ log[i].val = NoText
         /\ \/ i = Len(log) /\ pc = "boot_put"
               /\ bucket_name = account_id \o <<"-">> \o safe_app_name \o <<"-tfstate">>
            \/ /\ i < Len(log) /\ log[i + 1].op = PutOp
               /\ TargetOf(log[i + 1].val) = account_id \o <<"-">> \o safe_app_name \o <<"-tfstate">>

\* apply bootstrapped the backend although its output query failed, and then
\* its terraform apply failed.
C14_Witness ==
  /\ command = "apply"
  /\ Ended(OutputOp, ProcNonZero)
  /\ Ended(PutOp, ApiOk)
  /\ Is(Len(log), "terraform apply", ProcNonZero)
  /\ exitCode = 1
  /\ ssmStore # atStart.ssm

\* C14, as stated: a non-zero exit of any invocation of the provisioning
\* tool, the output query included, is the last call of the command, which
\* ends with exit code 1.
C14_AnyToolFailureTerminal ==
  \A i \in Idx :
    (log[i].op \in CheckedOps \cup {OutputOp} /\ log[i].res = ProcNonZero) =>
      i = Len(log) /\ pc = "done" /\ exitCode = 1

\* ------------------------------------------------------------ clean, on a directory tree
\* The target directory as a set of entries: the path below the target
\* directory, and whether the entry is a directory or a file.
Dir(path) == [path |-> path, kind |-> "dir"]
Fil(path) == [path |-> path, kind |-> "file"]

\* The entries a target directory of the check may hold: the artifacts, a
\* file and a directory that are none, a state file inside .terraform, and a
\* module directory with a .terraform of its own, a backup and a directory
\* that has the name of an artifact file.
TopFiles == {Fil(<<".terraform.lock.hcl">>), Fil(<<"backend.tf">>),
             Fil(<<"terraform.tfstate">>), Fil(<<"main.tf">>)}
CacheTrees == {{}, {Dir(<<".terraform">>)},
               {Dir(<<".terraform">>), Fil(<<".terraform", "terraform.tfstate">>)}}
ModuleEntries == {Dir(<<"modules", ".terraform">>),
                  Fil(<<"modules", "terraform.tfstate.backup">>),
                  Dir(<<"modules", "backend.tf">>)}
ModuleTrees == {{}} \cup {{Dir(<<"modules">>)} \cup m : m \in SUBSET ModuleEntries}
Trees == {f \cup c \cup m : f \in SUBSET TopFiles, c \in CacheTrees, m \in ModuleTrees}

\* dirs_to_remove and files_to_remove (lines 360-361).
dirs_to_remove == {".terraform"}
files_to_remove == {".terraform.lock.hcl", "backend.tf", "terraform.tfstate",
                    "terraform.tfstate.backup"}

\* An entry matched whatever its kind.
IsArtifact_any_kind(e) ==
  e.path[Len(e.path)] \in dirs_to_remove \cup files_to_remove

\* if dirname in dirs_to_remove (line 368), if filename in files_to_remove (line 379).
IsArtifact(e) ==
  \/ e.kind = "dir" /\ e.path[Len(e.path)] \in dirs_to_remove
  \/ e.kind = "file" /\ e.path[Len(e.path)] \in files_to_remove

\* The entries of directory root, as os.walk lists them in dirs and files.
Listing(tree, root) ==
  {e \in tree : Len(e.path) = Len(root) + 1 /\ SubSeq(e.path, 1, Len(root)) = root}

\* Entry e lies in the tree of directory d, or is d.
Under(e, d) ==
  Len(e.path) >= Len(d.path) /\ SubSeq(e.path, 1, Len(d.path)) = d.path

\* A set as a sequence, in some order (the order of a directory listing).
RECURSIVE SeqOf(_)
SeqOf(S) == IF S = {} THEN << >> ELSE LET x == CHOOSE x \in S : TRUE IN <<x>> \o SeqOf(S \ {x})

\* os.walk(top, topdown=False): the directories from top down are listed
\* first, each is yielded after the directories below it.
RECURSIVE walk(_, _)
RECURSIVE WalkEach(_, _)
WalkEach(tree, subdirs) ==
  IF subdirs = << >> THEN << >>
  ELSE walk(tree, subdirs[1].path) \o WalkEach(tree, Tail(subdirs))
walk(tree, top) ==
  WalkEach(tree, SeqOf({e \in Listing(tree, top) : e.kind = "dir"})) \o <<top>>

\* The body of the loop for one entry of a listing (lines 367-386): a removal
\* that succeeds takes the entry, and for rmtree all that is below it, and
\* counts; one that fails is logged.
RemoveOne(st, e, failing) ==
  IF ~IsArtifact(e) \/ e \in failing THEN st
  ELSE [tree |-> {x \in st.tree : ~Under(x, e)}, removed_count |-> st.removed_count + 1]

RECURSIVE RemoveEach(_, _, _)
RemoveEach(st, entries, failing) ==
  IF entries = << >> THEN st
  ELSE RemoveEach(RemoveOne(st, entries[1], failing), Tail(entries), failing)

\* The loop over os.walk (lines 365-386): the listings are those of the tree
\* as the walk found it; in each, the directories come before the files.
RECURSIVE Sweep(_, _, _, _)
Sweep(st, listed, roots, failing) ==
  IF roots = << >> THEN st
  ELSE LET here == Listing(listed, roots[1])
           dirs == SeqOf({e \in here : e.kind = "dir"})
           files == SeqOf({e \in here : e.kind = "file"})
       IN Sweep(RemoveEach(RemoveEach(st, dirs, failing), files, failing),
                listed, Tail(roots), failing)

\* clean_terraform_files on a tree, given the removals that fail.
clean_terraform_files(tree, failing) ==
  Sweep([tree |-> tree, removed_count |-> 0], tree, walk(tree, << >>), failing)

\* pair: the tree and the removals that will fail; resolved: what clean left.
CleanInit ==
  /\ InitRun
  /\ ssmStore = NoText
  /\ buckets = [b \in BucketNames |-> NoBucket]
  /\ bootDirs = <<FALSE, FALSE>>
  /\ bootBackend = bootDirs
  /\ targetBackend = NoFile
  /\ tfCache = FALSE
  /\ atStart = World
  /\ \E tree \in Trees :
       \E failing \in SUBSET {e \in tree : IsArtifact(e)} :
         pair = [tree |-> tree, failing |-> failing]
  /\ resolved = << >>

CleanTree ==
  /\ resolved = << >>
  /\ resolved' = <<clean_terraform_files(pair.tree, pair.failing)>>
  /\ UNCHANGED <<runVars, worldVars, pair>>

CleanNext == CleanTree

CleanSpec == CleanInit /\ [][CleanNext]_vars

\* The last name of the path of an entry.
NameOf(e) == e.path[Len(e.path)]

\* What clean is to remove.
Matching(e) ==
  \/ e.kind = "dir" /\ NameOf(e) = ".terraform"
  \/ /\ e.kind = "file"
     /\ NameOf(e) \in {".terraform.lock.hcl", "backend.tf", "terraform.tfstate",
                      "terraform.tfstate.backup"}

\* Entry e is d or lies below directory d.
Below(e, d) ==
  /\ d.kind = "dir" /\ Len(e.path) >= Len(d.path)
  /\ \A n \in 1..Len(d.path) : e.path[n] = d.path[n]

\* C15: clean removes, in the whole tree, each .terraform directory and each
\* .terraform.lock.hcl, backend.tf, terraform.tfstate and
\* terraform.tfstate.backup file whose removal does not fail, and nothing
\* that is neither one of these nor inside a removed .terraform; a removal
\* that fails leaves the other removals to be made; the count is the number
\* of removals that succeeded.  A tree of one .terraform directory and one
\* terraform.tfstate file gives a count of 2.
C15_CleanRemovesArtifactsOnly ==
  resolved # << >> =>
    LET before == pair.tree
        after == resolved[1].tree
        taken == {e \in before : Matching(e) /\ e \notin pair.failing}
    IN /\ after \subseteq before
       /\ \A e \in before :
            e \notin after <=> \E d \in taken : e = d \/ Below(e, d)
       /\ resolved[1].removed_count = Cardinality(taken)
       /\ (before = {Dir(<<".terraform">>), Fil(<<"terraform.tfstate">>)} /\ pair.failing = {}) =>
            resolved[1].removed_count = 2 /\ after = {}

\* clean ran on a tree with a state file inside .terraform, a module directory
\* holding a directory named backend.tf, and a file that is no artifact; one
\* removal failed and others were made.
C15_Witness ==
  /\ resolved # << >>
  /\ Fil(<<".terraform", "terraform.tfstate">>) \in pair.tree
  /\ Dir(<<"modules", "backend.tf">>) \in resolved[1].tree
  /\ Fil(<<"main.tf">>) \in resolved[1].tree
  /\ pair.failing # {}
  /\ resolved[1].removed_count >= 2

\* ------------------------------------------------------------ order of the steps of a run
InitOp == "terraform init"
StackOps == {"terraform plan", "terraform apply", "terraform destroy"}

\* C16: terraform plan, apply and destroy of the target directory are run
\* only after terraform init of the target directory succeeded in the run,
\* and that init only after backend resolution wrote the backend file of
\* the target directory in the run, the file init then finds.
C16_WriteThenInitThenStack ==
  /\ \A i \in Idx :
       /\ log[i].op \in StackOps =>
            \E n \in 1..(i - 1) : Is(n, InitOp, ProcOk)
       /\ log[i].op = InitOp =>
            /\ \E w \in 1..(i - 1) :
                 /\ log[w].op = WriteOp
                 /\ log[w].fn \in {EnsureFn, BootstrapFn}
                 /\ targetBackend = File(log[w].val)
            /\ \A n \in 1..(i - 1) : log[n].op \notin StackOps \cup {InitOp}
  /\ pc \in {"tf_plan", "tf_apply", "tf_destroy"} => Ended(InitOp, ProcOk)
  /\ pc = "tf_init" => Called(WriteOp) /\ targetBackend.exists

\* plan bootstrapped the backend, wrote the file, initialized and planned.
C16_Witness ==
  /\ command = "plan"
  /\ Ended("terraform plan", ProcOk)
  /\ \E w \in Idx : log[w].op = WriteOp /\ log[w].fn = BootstrapFn
  /\ ~atStart.target.exists

\* Neither candidate for the bootstrap directory exists.
NoBootstrapDir == ~bootDirs[1] /\ ~bootDirs[2]

\* C17: destroy-all with no bootstrap directory makes no call of
\* delete_bootstrap_stack: no Get, no Delete, no erase, no bucket call.  Once
\* terraform destroy has succeeded it ends with exit code 0, and the
\* parameter, the bootstrap directories and the existence of the buckets are
\* as the run found them.
C17_NoBootstrapDirSkipsTeardown ==
  (command = "destroy-all" /\ NoBootstrapDir) =>
    /\ \A i \in Idx : log[i].fn \notin TeardownFns
    /\ pc \notin {"delete_ssm", "empty_bucket", "empty_page", "delete_bucket"}
    /\ (Over /\ Ended("terraform destroy", ProcOk)) =>
         /\ exitCode = 0
         /\ Is(Len(log), "terraform destroy", ProcOk)
         /\ ssmStore = atStart.ssm
         /\ bootBackend = atStart.boot
         /\ \A b \in BucketNames : (buckets[b] = NoBucket) <=> (atStart.buckets[b] = NoBucket)

\* destroy-all destroyed the top-level stack with a parameter stored and no
\* bootstrap directory anywhere, and ended with exit code 0.
C17_Witness ==
  /\ command = "destroy-all" /\ NoBootstrapDir
  /\ Over /\ exitCode = 0
  /\ Ended("terraform destroy", ProcOk)
  /\ ssmStore # NoText

\* ------------------------------------------------------------ batches
\* empty_s3_bucket, lines 221-232, on one page of list_object_versions.  The
\* page is what the service returned: a list of versions and a list of delete
\* markers, each entry standing for one (Key, VersionId) of the bucket.  The
\* code puts no bound on the length of a page.

\* The literal of range(0, len(objects), 1000) and objects[i:i+1000].
ChunkSize == 1000

Ids(lo, hi) == [k \in 1..(hi - lo + 1) |-> lo + k - 1]

VersionCounts == {0, 1} \cup {k * ChunkSize + d : k \in 1..MaxBatches, d \in {-1, 0, 1}}
MarkerCounts == {0, 1, 2, ChunkSize - 1}

Pages ==
  {[Versions |-> Ids(1, v), DeleteMarkers |-> Ids(v + 1, v + m)] :
     v \in VersionCounts, m \in MarkerCounts}

\* A slice that takes one entry more than the end index allows.
Slice_inclusive(s, i, j) ==
  SubSeq(s, i + 1, IF j + 1 < Len(s) THEN j + 1 ELSE Len(s))

\* s[i:j] for 0 <= i <= j: the end is cut at len(s).
Slice(s, i, j) ==
  SubSeq(s, i + 1, IF j < Len(s) THEN j ELSE Len(s))

\* range(0, stop, step) as a sequence.
range(stop, step) ==
  [k \in 1..((stop + step - 1) \div step) |-> (k - 1) * step]

\* lines 223-225: objects of page.get('Versions', []) + page.get('DeleteMarkers', [])
ObjectsOf(page) == page.Versions \o page.DeleteMarkers

\* How the work on the page stands: the for loop of line 228 is running, the
\* page is finished and the paginator is asked for the next one, ClientError
\* was caught at line 231, or another exception left empty_s3_bucket.
Looping == "looping"
NextPage == "next page"
Caught == "caught"

ChunkInit ==
  /\ InitRun
  /\ ssmStore = NoText
  /\ buckets = [b \in BucketNames |-> NoBucket]
  /\ bootDirs = <<FALSE, FALSE>>
  /\ bootBackend = bootDirs
  /\ targetBackend = NoFile
  /\ tfCache = FALSE
  /\ atStart = World
  /\ \E page \in Pages : pair = page
  /\ resolved = << >>

\* lines 222-227: the page arrives, objects is built, and 'if objects' skips
\* an empty page.
ListPage ==
  /\ resolved = << >>
  /\ LET objects == ObjectsOf(pair)
     IN resolved' = <<[objects |-> objects,
                       todo |-> range(Len(objects), ChunkSize),
                       sent |-> << >>,
                       how |-> IF objects = << >> THEN NextPage ELSE Looping]>>
  /\ UNCHANGED <<runVars, worldVars, pair>>

\* lines 228-232: one turn of the for loop.  The request is issued with the
\* chunk; ClientError ends the whole paginate loop, another exception leaves
\* empty_s3_bucket, and otherwise the loop goes on with the next index.
DeleteChunk ==
  /\ resolved # << >>
  /\ resolved[1].how = Looping
  /\ LET r == resolved[1]
         i == Head(r.todo)
         chunk == Slice(r.objects, i, i + ChunkSize)
     IN \E res \in ApiOutcomes :
          resolved' = <<[r EXCEPT !.todo = Tail(@),
                                  !.sent = Append(@, chunk),
                                  !.how = CASE res = ClientError -> Caught
                                            [] res = OtherError -> Raised
                                            [] Tail(r.todo) = << >> -> NextPage
                                            [] OTHER -> Looping]>>
  /\ UNCHANGED <<runVars, worldVars, pair>>

ChunkNext == ListPage \/ DeleteChunk

ChunkSpec == ChunkInit /\ [][ChunkNext]_vars

RECURSIVE Flatten(_)
Flatten(ss) == IF ss = << >> THEN << >> ELSE Head(ss) \o Flatten(Tail(ss))

\* The requests issued for the page so far, one after the other.
Issued == IF resolved = << >> THEN << >> ELSE Flatten(resolved[1].sent)

\* Every request carries between 1 and 1000 keys, and the requests issued so
\* far carry the first entries of the page in the order listed.
BatchesInOrder ==
  resolved # << >> =>
    /\ \A n \in 1..Len(resolved[1].sent) :
         Len(resolved[1].sent[n]) \in 1..ChunkSize
    /\ Len(Issued) <= Len(ObjectsOf(pair))
    /\ Issued = SubSeq(ObjectsOf(pair), 1, Len(Issued))

\* Each listed version and delete marker is in exactly one request: the
\* requests, one after the other, are the listing (its entries are distinct).
EachExactlyOnce == Issued = ObjectsOf(pair)

\* C18: every batch delete request carries at most 1000 keys, no listed version
\* or delete marker is in two requests, and when every request of the page
\* returned the requests together carry each listed entry exactly once.  A
\* request that fails ends the loop with the later entries of the page in no
\* request.
C18_BatchesCoverPageOnce ==
  /\ BatchesInOrder
  /\ (resolved # << >> /\ resolved[1].how = NextPage) => EachExactlyOnce
  /\ (resolved # << >> /\ resolved[1].how \in {Caught, Raised}) =>
       Issued = Slice(ObjectsOf(pair), 0, Len(resolved[1].sent) * ChunkSize)

\* A page of 2001 versions and 999 delete markers went out in three requests.
C18_Witness ==
  /\ resolved # << >>
  /\ resolved[1].how = NextPage
  /\ Len(resolved[1].sent) = 3
  /\ Len(pair.Versions) = 2 * ChunkSize + 1
  /\ pair.DeleteMarkers # << >>

\* C18 as stated: whenever the work on a page has stopped, the requests issued
\* for it carry each listed entry exactly once.
C18_EveryPageCovered ==
  /\ BatchesInOrder
  /\ (resolved # << >> /\ resolved[1].how # Looping) => EachExactlyOnce

\* Backend resolution has completed and the run goes on, or the bootstrap
\* command has completed without a terminal exit.
ResolutionCompleted ==
  \/ pc \in {"tf_init", "tf_plan", "tf_apply", "tf_destroy", "delete_bootstrap"}
  \/ command = "bootstrap" /\ Over /\ exitCode = 0

\* C19: once backend resolution or the bootstrap command has completed
\* without a terminal exit, the backend file of the target directory exists
\* and its content is the value stored in the parameter, which is not empty,
\* whether the value was found by Get or built and Put by the bootstrap
\* sub-flow.
C19_BackendFileEqualsParameter ==
  ResolutionCompleted =>
    /\ targetBackend.exists
    /\ targetBackend.content = ssmStore
    /\ ssmStore # NoText
    /\ \E w \in Idx : /\ log[w].op = WriteOp
                      /\ log[w].val = ssmStore
                      /\ \A x \in (w + 1)..Len(log) : log[x].op # WriteOp

\* Both branches: a run whose Get found nothing, bootstrapped and wrote the
\* descriptor it Put; or a run that wrote the stored value it found.
C19_Witness ==
  /\ pc = "tf_init"
  /\ Ended("ssm.put_parameter", ApiOk)
  /\ atStart.ssm = NoText
  /\ targetBackend.content = ssmStore

C19_WitnessStored ==
  /\ pc = "tf_init"
  /\ ~Called("ssm.put_parameter")
  /\ atStart.ssm # NoText
  /\ targetBackend.content = atStart.ssm

\* ------------------------------------------------------------ round trip
\* The bootstrap sub-flow's choice of a bucket name and its descriptor
\* (lines 277-294), followed by the reading of the bucket name in
\* delete_bootstrap_stack (lines 329-333), on names the code does not
\* restrict: BUCKET_OVERRIDE is any text of the environment (line 421) and
\* the bucket_name output is whatever the stack declares.

\* The tokens of a name: a letter, the words and signs of the pattern, white
\* space, and the double quote.
NameTokens == {"s", "bucket", "=", " ", Q}
Names == SeqsOf(NameTokens, 1, MaxName)

RoundInputs ==
  {[override |-> o, output |-> t, res |-> r] :
     o \in {NoText} \cup Names,
     t \in {NoText, tfBucketName, <<"s", Q>>, <<"bucket", "=">>},
     r \in ProcOutcomes}

RoundInit ==
  /\ InitRun
  /\ ssmStore = NoText
  /\ buckets = [b \in BucketNames |-> NoBucket]
  /\ bootDirs = <<FALSE, FALSE>>
  /\ bootBackend = bootDirs
  /\ targetBackend = NoFile
  /\ tfCache = FALSE
  /\ atStart = World
  /\ pair \in RoundInputs
  /\ resolved = << >>

\* lines 277-294: the name is chosen, the descriptor is built and stored.
RoundBootstrap ==
  /\ resolved = << >>
  /\ LET chosen == ChooseBucketName(pair.override, terraform_output(pair.res, pair.output),
                                    TheAccount, TheSafe)
     IN resolved' = <<[chosen |-> chosen,
                       stored |-> build_backend_content(chosen, Region, TheAccount, TheSafe)]>>
  /\ UNCHANGED <<runVars, worldVars, pair>>

\* lines 329-333: Get, and the bucket name from what it returned.
RoundTeardown ==
  /\ Len(resolved) = 1
  /\ \E res \in ApiOutcomes :
       LET g == get_ssm_backend(resolved[1].stored, res)
       IN resolved' = Append(resolved,
                             IF g.outcome = Returned
                               THEN [outcome |-> Returned, got |-> g.value,
                                     bucket_name |-> ExtractBucket(g.value, TheAccount, TheSafe)]
                               ELSE [outcome |-> g.outcome, got |-> NoText, bucket_name |-> NoText])
  /\ UNCHANGED <<runVars, worldVars, pair>>

RoundNext == RoundBootstrap \/ RoundTeardown

RoundSpec == RoundInit /\ [][RoundNext]_vars

\* The teardown's Get returned the descriptor that bootstrap stored.
ReturnedUnchanged ==
  /\ Len(resolved) = 2
  /\ resolved[2].outcome = Returned
  /\ resolved[2].got = resolved[1].stored

HasQuote(name) == \E k \in 1..Len(name) : name[k] = Q

====
